---- MODULE Spec2Model ----
(***************************************************************************)
(* Model of analisador_sequencias.py: the sequence-analysis functions and  *)
(* the menu loop of main().                                                *)
(*                                                                         *)
(* A Python str is a sequence of one-character strings.  None is the       *)
(* one-element sequence <<"None">>, which no text equals because its       *)
(* element is not a single character.                                      *)
(***************************************************************************)
EXTENDS Integers, Sequences, FiniteSets, TLC

VARIABLES
    REQUESTS_DISPONIVEL, \* module global set by the import at lines 2-6
    sequencia_atual,     \* main(): the current sequence, or None
    tipo_atual,          \* main(): "DNA", "RNA", "Desconhecido", or "None"
    opcao,               \* main(): the menu choice of the last iteration
    rna,                 \* main(): the transcription made by the last iteration, or None
    arquivo,             \* the text the last iteration wrote to a file, or None
    tela,                \* the messages the last iteration printed, in order
    pc,                  \* "menu" while the loop runs, "fim" after the break
    fn,                  \* direct call: the name of the function called
    entrada,             \* direct call: the text argument
    padrao,              \* direct call: the motif argument of encontrar_motivos
    ret                  \* direct call: the value returned

vars == <<REQUESTS_DISPONIVEL, sequencia_atual, tipo_atual, opcao, rna, arquivo,
          tela, pc, fn, entrada, padrao, ret>>

shell == <<REQUESTS_DISPONIVEL, sequencia_atual, tipo_atual, opcao, rna, arquivo, tela, pc>>
chamada == <<fn, entrada, padrao, ret>>

----------------------------------------------------------------------------
(* Bounds of the model. *)

MaxDigitado == 3   \* longest line typed at "Digite a sequencia"
MaxResposta == 3   \* longest response body in the menu loop
MaxSeq      == 4   \* longest argument of a direct call
MaxMotivoSeq == 5  \* longest sequence searched for motifs
MaxMotivo   == 2   \* longest motif
MaxFasta    == 4   \* longest response body of a direct extraction
MaxLinhas   == 4   \* most lines of a line-built response body

SeqsAte(S, n) == UNION {[1..k -> S] : k \in 0..n}

----------------------------------------------------------------------------
(* Python values and str methods. *)

None == <<"None">>

Espacos == {" ", "\t", "\n", "\r"}

Minusculas == {"a", "c", "g", "t", "u", "x", "h", "s", "n"}

upper_char(c) ==
    CASE c = "a" -> "A" [] c = "c" -> "C" [] c = "g" -> "G" [] c = "t" -> "T"
      [] c = "u" -> "U" [] c = "x" -> "X" [] c = "h" -> "H" [] c = "s" -> "S"
      [] c = "n" -> "N" [] OTHER -> c

lower_char(c) ==
    CASE c = "A" -> "a" [] c = "C" -> "c" [] c = "G" -> "g" [] c = "T" -> "t"
      [] c = "U" -> "u" [] c = "X" -> "x" [] c = "H" -> "h" [] c = "S" -> "s"
      [] c = "N" -> "n" [] OTHER -> c

upper(s) == [i \in 1..Len(s) |-> upper_char(s[i])]

lower(s) == [i \in 1..Len(s) |-> lower_char(s[i])]

RECURSIVE lstrip(_)
lstrip(s) == IF s # <<>> /\ Head(s) \in Espacos THEN lstrip(Tail(s)) ELSE s

RECURSIVE rstrip(_)
rstrip(s) ==
    IF s # <<>> /\ s[Len(s)] \in Espacos THEN rstrip(SubSeq(s, 1, Len(s) - 1)) ELSE s

strip(s) == rstrip(lstrip(s))

\* s.replace(velho, novo) for single characters; novo = <<>> deletes.
RECURSIVE replace(_, _, _)
replace(s, velho, novo) ==
    IF s = <<>> THEN <<>>
    ELSE (IF Head(s) = velho THEN novo ELSE <<Head(s)>>) \o replace(Tail(s), velho, novo)

\* s.split('\n'): the pieces between line feeds, empty pieces included.
RECURSIVE split_linhas(_)
split_linhas(s) ==
    IF \A i \in 1..Len(s) : s[i] # "\n" THEN <<s>>
    ELSE LET i == CHOOSE k \in 1..Len(s) :
                      s[k] = "\n" /\ \A j \in 1..(k - 1) : s[j] # "\n"
         IN  <<SubSeq(s, 1, i - 1)>> \o split_linhas(SubSeq(s, i + 1, Len(s)))

startswith(linha, c) == linha # <<>> /\ linha[1] = c

RECURSIVE join(_)
join(linhas) == IF linhas = <<>> THEN <<>> ELSE Head(linhas) \o join(Tail(linhas))

----------------------------------------------------------------------------
(* The analysis functions. *)

RECURSIVE validar_dna(_)
validar_dna(sequencia) ==
    IF sequencia = <<>> THEN TRUE
    ELSE IF Head(sequencia) \notin {"A", "T", "C", "G"} THEN FALSE
    ELSE validar_dna(Tail(sequencia))

RECURSIVE validar_rna(_)
validar_rna(sequencia) ==
    IF sequencia = <<>> THEN TRUE
    ELSE IF Head(sequencia) \notin {"A", "U", "C", "G"} THEN FALSE
    ELSE validar_rna(Tail(sequencia))

classificar_rna_primeiro(sequencia) ==
    IF validar_rna(sequencia) THEN "RNA"
    ELSE IF validar_dna(sequencia) THEN "DNA"
    ELSE "Desconhecido"

\* The if / elif / else chain main() runs on a sequence (lines 280-293, 317-328).
classificar(sequencia) ==
    IF validar_dna(sequencia) THEN "DNA"
    ELSE IF validar_rna(sequencia) THEN "RNA"
    ELSE "Desconhecido"

contar_passo_do_zero(contagem, base) ==
    IF base \in DOMAIN contagem THEN [contagem EXCEPT ![base] = @ + 1]
    ELSE contagem @@ (base :> 0)

\* One iteration of the for loop of contar_bases; contagem is the dict.
contar_passo(contagem, base) ==
    IF base \in DOMAIN contagem THEN [contagem EXCEPT ![base] = @ + 1]
    ELSE contagem @@ (base :> 1)

RECURSIVE contar_laco(_, _)
contar_laco(sequencia, contagem) ==
    IF sequencia = <<>> THEN contagem
    ELSE contar_laco(Tail(sequencia), contar_passo(contagem, Head(sequencia)))

contar_bases(sequencia) == contar_laco(sequencia, <<>>)

transcrever_dna_para_rna(sequencia_dna) == replace(sequencia_dna, "T", <<"U">>)

complemento == ("A" :> "T") @@ ("T" :> "A") @@ ("C" :> "G") @@ ("G" :> "C")

complemento_passo_sem_inverter(complemento_reverso, base) ==
    IF base \in DOMAIN complemento THEN complemento_reverso \o <<complemento[base]>>
    ELSE complemento_reverso

complemento_passo_sem_descartar(complemento_reverso, base) ==
    IF base \in DOMAIN complemento THEN <<complemento[base]>> \o complemento_reverso
    ELSE <<base>> \o complemento_reverso

\* One iteration of the for loop of gerar_complemento_reverso.
complemento_passo(complemento_reverso, base) ==
    IF base \in DOMAIN complemento THEN <<complemento[base]>> \o complemento_reverso
    ELSE complemento_reverso

RECURSIVE complemento_laco(_, _)
complemento_laco(sequencia, complemento_reverso) ==
    IF sequencia = <<>> THEN complemento_reverso
    ELSE complemento_laco(Tail(sequencia),
                          complemento_passo(complemento_reverso, Head(sequencia)))

gerar_complemento_reverso(sequencia) == complemento_laco(sequencia, <<>>)

\* The for loop of encontrar_motivos from index i (0-based) on; range() is
\* empty when its argument is zero or negative.
RECURSIVE motivos_laco(_, _, _, _)
motivos_laco(sequencia_upper, motivo_upper, i, posicoes) ==
    IF i >= Len(sequencia_upper) - Len(motivo_upper) + 1 THEN posicoes
    ELSE motivos_laco(sequencia_upper, motivo_upper, i + 1,
            IF SubSeq(sequencia_upper, i + 1, i + Len(motivo_upper)) = motivo_upper
            THEN Append(posicoes, i + 1)
            ELSE posicoes)

encontrar_motivos_sem_upper(sequencia, motivo) ==
    motivos_laco(upper(sequencia), motivo, 0, <<>>)

encontrar_motivos(sequencia, motivo) == motivos_laco(upper(sequencia), upper(motivo), 0, <<>>)

calcular_tamanho_sequencia(sequencia) == Len(sequencia)

----------------------------------------------------------------------------
(* Retrieval.  The environment answers a request with a resposta: a status *)
(* ("ok", "erro_rede" for a transport failure or timeout, "erro_http" for  *)
(* a status raise_for_status rejects, "erro_inesperado" for any other      *)
(* exception raised inside the try) and, when ok, the body text.           *)

extrair_fasta_com_cabecalho(text) ==
    LET linhas == split_linhas(strip(text))
    IN  replace(replace(upper(join(linhas)), " ", <<>>), "\n", <<>>)

\* Lines 57-60: the sequence taken from a FASTA body.
extrair_fasta(text) ==
    LET linhas == split_linhas(strip(text))
        corpo  == join(SelectSeq(linhas, LAMBDA linha : ~startswith(linha, ">")))
    IN  replace(replace(upper(corpo), " ", <<>>), "\n", <<>>)

\* The value returned and the messages printed.
buscar_sequencia_ncbi(accession_id, resposta) ==
    IF ~REQUESTS_DISPONIVEL
    THEN [valor |-> None, tela |-> <<"Erro: requests nao instalada">>]
    ELSE IF resposta.status \in {"erro_rede", "erro_http"}
    THEN [valor |-> None, tela |-> <<"Buscando sequencia", "Erro ao buscar sequencia">>]
    ELSE IF resposta.status # "ok"
    THEN [valor |-> None, tela |-> <<"Buscando sequencia", "Erro inesperado">>]
    ELSE LET seq == extrair_fasta(resposta.text)
         IN  IF seq # <<>>
             THEN [valor |-> seq, tela |-> <<"Buscando sequencia", "Sequencia encontrada">>]
             ELSE [valor |-> None,
                   tela |-> <<"Buscando sequencia", "Erro: Sequencia nao encontrada ou vazia">>]

\* Messages of exibir_relatorio, which prints and changes nothing.
exibir_relatorio(seq, tipo) == <<"RELATORIO DE ANALISE DE SEQUENCIA">>

----------------------------------------------------------------------------
(* The menu loop of main().  One action is one iteration: the choice read  *)
(* by menu_principal and the whole branch taken on it.  rna, arquivo and   *)
(* tela describe that iteration alone.                                     *)

TeclasDigitadas == {"t", "U", " ", "\t"}
Digitados == SeqsAte(TeclasDigitadas, MaxDigitado)

LetrasResposta == {">", "\n", "\r", "t", "U"}
Respostas ==
    {[status |-> s, text |-> <<>>] : s \in {"erro_rede", "erro_http", "erro_inesperado"}}
    \cup {[status |-> "ok", text |-> x] : x \in SeqsAte(LetrasResposta, MaxResposta)}

AccessionIds == {<<>>, <<" ">>, <<"N", " ">>}
RespostasSalvar == {<<"s">>, <<"S", " ">>, <<"n">>, <<>>}

\* Lines 276-277.
normalizar_digitado(digitado) ==
    replace(replace(upper(strip(digitado)), " ", <<>>), "\n", <<>>)

aceitar_sem_guardar(seq, antes, aviso) ==
    /\ sequencia_atual' = IF classificar(seq) = "Desconhecido" THEN sequencia_atual ELSE seq
    /\ tipo_atual' = classificar(seq)
    /\ tela' = antes \o
               (CASE classificar(seq) = "DNA" -> exibir_relatorio(seq, "DNA")
                  [] classificar(seq) = "RNA" -> exibir_relatorio(seq, "RNA")
                  [] OTHER -> <<aviso>>)

\* Lines 280-293 and 317-328: the sequence becomes the current one whatever
\* its kind.
aceitar(seq, antes, aviso) ==
    /\ sequencia_atual' = seq
    /\ tipo_atual' = classificar(seq)
    /\ tela' = antes \o
               (CASE classificar(seq) = "DNA" -> exibir_relatorio(seq, "DNA")
                  [] classificar(seq) = "RNA" -> exibir_relatorio(seq, "RNA")
                  [] OTHER -> <<aviso>>)

Opcao1_atribui_antes ==
    /\ pc = "menu"
    /\ \E digitado \in Digitados :
          LET seq == normalizar_digitado(digitado) IN
          IF seq # <<>>
          THEN aceitar(seq,
                       CASE classificar(seq) = "DNA" -> <<"Sequencia de DNA valida">>
                         [] classificar(seq) = "RNA" -> <<"Sequencia de RNA valida">>
                         [] OTHER -> <<>>,
                       "Aviso: Sequencia contem caracteres invalidos")
          ELSE /\ tela' = <<"Erro: Sequencia vazia">>
               /\ sequencia_atual' = seq
               /\ UNCHANGED tipo_atual
    /\ opcao' = "1"
    /\ rna' = None
    /\ arquivo' = None
    /\ UNCHANGED <<REQUESTS_DISPONIVEL, pc, chamada>>

Opcao1 ==
    /\ pc = "menu"
    /\ \E digitado \in Digitados :
          LET seq == normalizar_digitado(digitado) IN
          IF seq # <<>>
          THEN aceitar(seq,
                       CASE classificar(seq) = "DNA" -> <<"Sequencia de DNA valida">>
                         [] classificar(seq) = "RNA" -> <<"Sequencia de RNA valida">>
                         [] OTHER -> <<>>,
                       "Aviso: Sequencia contem caracteres invalidos")
          ELSE /\ tela' = <<"Erro: Sequencia vazia">>
               /\ UNCHANGED <<sequencia_atual, tipo_atual>>
    /\ opcao' = "1"
    /\ rna' = None
    /\ arquivo' = None
    /\ UNCHANGED <<REQUESTS_DISPONIVEL, pc, chamada>>

Opcao2 ==
    /\ pc = "menu"
    /\ \E digitado \in AccessionIds :
          LET accession_id == strip(digitado) IN
          IF accession_id # <<>>
          THEN \E resposta \in Respostas :
                  LET busca == buscar_sequencia_ncbi(accession_id, resposta) IN
                  IF busca.valor \notin {None, <<>>}
                  THEN aceitar(busca.valor, busca.tela,
                               "Aviso: Sequencia contem caracteres nao padrao")
                  ELSE /\ tela' = busca.tela
                       /\ UNCHANGED <<sequencia_atual, tipo_atual>>
          ELSE /\ tela' = <<"Erro: ID de acesso vazio">>
               /\ UNCHANGED <<sequencia_atual, tipo_atual>>
    /\ opcao' = "2"
    /\ rna' = None
    /\ arquivo' = None
    /\ UNCHANGED <<REQUESTS_DISPONIVEL, pc, chamada>>

\* salvar_resultado: the write succeeds or raises; the exception is caught.
Opcao3 ==
    /\ pc = "menu"
    /\ opcao' = "3"
    /\ IF sequencia_atual = None
       THEN /\ tela' = <<"Erro: Nenhuma sequencia carregada">>
            /\ rna' = None
            /\ arquivo' = None
       ELSE \E digitado \in RespostasSalvar, escrita_ok \in BOOLEAN :
               LET aviso  == IF tipo_atual # "DNA"
                             THEN <<"Aviso: Esta funcao e para sequencias de DNA">>
                             ELSE <<>>
                   salvar == lower(strip(digitado))
               IN  /\ rna' = transcrever_dna_para_rna(sequencia_atual)
                   /\ IF salvar = <<"s">>
                      THEN IF escrita_ok
                           THEN /\ arquivo' = rna'
                                /\ tela' = aviso \o <<"Transcricao DNA -> RNA", "Resultado salvo">>
                           ELSE /\ arquivo' = None
                                /\ tela' = aviso \o <<"Transcricao DNA -> RNA", "Erro ao salvar arquivo">>
                      ELSE /\ arquivo' = None
                           /\ tela' = aviso \o <<"Transcricao DNA -> RNA">>
    /\ UNCHANGED <<REQUESTS_DISPONIVEL, sequencia_atual, tipo_atual, pc, chamada>>

Opcao4 ==
    /\ pc = "menu"
    /\ opcao' = "4"
    /\ pc' = "fim"
    /\ tela' = <<"Encerrando programa">>
    /\ rna' = None
    /\ arquivo' = None
    /\ UNCHANGED <<REQUESTS_DISPONIVEL, sequencia_atual, tipo_atual, chamada>>

OpcaoInvalida ==
    /\ pc = "menu"
    /\ opcao' \in {"", "5"}
    /\ tela' = <<"Opcao invalida">>
    /\ rna' = None
    /\ arquivo' = None
    /\ UNCHANGED <<REQUESTS_DISPONIVEL, sequencia_atual, tipo_atual, pc, chamada>>

SemChamada ==
    /\ fn = "nenhuma"
    /\ entrada = <<>>
    /\ padrao = <<>>
    /\ ret = None

Init ==
    /\ REQUESTS_DISPONIVEL \in BOOLEAN
    /\ sequencia_atual = None
    /\ tipo_atual = "None"
    /\ opcao = ""
    /\ rna = None
    /\ arquivo = None
    /\ tela = <<>>
    /\ pc = "menu"
    /\ SemChamada

Next == Opcao1 \/ Opcao2 \/ Opcao3 \/ Opcao4 \/ OpcaoInvalida

Spec == Init /\ [][Next]_vars

----------------------------------------------------------------------------
(* Direct calls of the analysis functions: the argument is any text within *)
(* the bounds, and each action is one call.                                *)

SemSessao ==
    /\ REQUESTS_DISPONIVEL = TRUE
    /\ sequencia_atual = None
    /\ tipo_atual = "None"
    /\ opcao = ""
    /\ rna = None
    /\ arquivo = None
    /\ tela = <<>>
    /\ pc = "menu"

Simbolos == {"A", "C", "G", "T", "U", "X"}

ExemplosAnalise ==
    {<<"A", "A", "T", "C", "G">>, <<"A", "C", "G", "A", "C", "G">>, <<"A", "T", "G", "C">>}

InitAnalise ==
    /\ SemSessao
    /\ fn = "nenhuma"
    /\ entrada \in SeqsAte(Simbolos, MaxSeq) \cup ExemplosAnalise
    /\ padrao = <<>>
    /\ ret = None

Chama(nome, valor) ==
    /\ fn' = nome
    /\ ret' = valor
    /\ UNCHANGED <<entrada, padrao, shell>>

ChamaClassificar == Chama("classificar", classificar(entrada))

ChamaContarBases == Chama("contar_bases", contar_bases(entrada))

ChamaTranscrever == Chama("transcrever_dna_para_rna", transcrever_dna_para_rna(entrada))

ChamaComplementoReverso ==
    Chama("gerar_complemento_reverso", gerar_complemento_reverso(entrada))

NextAnalise ==
    ChamaClassificar \/ ChamaContarBases \/ ChamaTranscrever \/ ChamaComplementoReverso

SpecAnalise == InitAnalise /\ [][NextAnalise]_vars

LetrasMotivo == {"A", "T", "a"}
ExemploSequencia == <<"G", "A", "T", "C", "G", "A", "T", "C">>
ExemploMotivo == <<"A", "T", "C">>

InitMotivos ==
    /\ SemSessao
    /\ fn = "nenhuma"
    /\ \/ /\ entrada \in SeqsAte(LetrasMotivo, MaxMotivoSeq)
          /\ padrao \in SeqsAte(LetrasMotivo, MaxMotivo)
       \/ /\ entrada = ExemploSequencia
          /\ padrao \in {ExemploMotivo, lower(ExemploMotivo)}
    /\ ret = None

ChamaEncontrarMotivos == Chama("encontrar_motivos", encontrar_motivos(entrada, padrao))

NextMotivos == ChamaEncontrarMotivos

SpecMotivos == InitMotivos /\ [][NextMotivos]_vars

LetrasFasta == {">", "\n", "\r", " ", "a", "T"}
LinhasFasta == {<<>>, <<">", "h">>, <<"a", "T">>, <<"T", " ", "g">>, <<" ", ">">>}
ExemploFasta ==
    <<">", "h", "e", "a", "d", "e", "r", "\n", "A", "T", "G", "C", "\n",
      "G", "A", "T", "C", "\n">>

\* The lines joined by line feeds, each followed by one.
RECURSIVE texto_de(_)
texto_de(linhas) ==
    IF linhas = <<>> THEN <<>> ELSE Head(linhas) \o <<"\n">> \o texto_de(Tail(linhas))

InitFasta ==
    /\ SemSessao
    /\ fn = "nenhuma"
    /\ entrada \in SeqsAte(LetrasFasta, MaxFasta)
                   \cup {texto_de(l) : l \in SeqsAte(LinhasFasta, MaxLinhas)}
                   \cup {ExemploFasta}
    /\ padrao = <<>>
    /\ ret = None

ChamaBuscar ==
    Chama("buscar_sequencia_ncbi",
          buscar_sequencia_ncbi(<<"N">>, [status |-> "ok", text |-> entrada]).valor)

NextFasta == ChamaBuscar

SpecFasta == InitFasta /\ [][NextFasta]_vars

----------------------------------------------------------------------------
(* Properties. *)

DNA_ALFABETO == {"A", "T", "C", "G"}
RNA_ALFABETO == {"A", "U", "C", "G"}

SoSimbolos(s, S) == \A i \in 1..Len(s) : s[i] \in S

\* The kind the alphabets give a sequence, DNA first.
Tipo(s) ==
    IF SoSimbolos(s, DNA_ALFABETO) THEN "DNA"
    ELSE IF SoSimbolos(s, RNA_ALFABETO) THEN "RNA"
    ELSE "Desconhecido"

Ocorrencias(s, b) == Cardinality({i \in 1..Len(s) : s[i] = b})

RECURSIVE Soma(_, _)
Soma(f, S) ==
    IF S = {} THEN 0 ELSE LET b == CHOOSE x \in S : TRUE IN f[b] + Soma(f, S \ {b})

Par(b) == CASE b = "A" -> "T" [] b = "T" -> "A" [] b = "C" -> "G" [] b = "G" -> "C"

\* The symbol-wise complement of s read from its last symbol to its first.
ComplementoInvertido(s) == [i \in 1..Len(s) |-> Par(s[Len(s) + 1 - i])]

\* C1: classification is total and exclusive: the result is one of DNA, RNA,
\* Desconhecido; DNA exactly when every symbol is in {A,T,C,G}; RNA exactly
\* when that fails and every symbol is in {A,U,C,G}; Desconhecido otherwise;
\* a sequence of only A, C, G (the empty one included) is DNA.
C1_ClassificacaoTotalExclusiva ==
    fn = "classificar" =>
        /\ ret \in {"DNA", "RNA", "Desconhecido"}
        /\ (ret = "DNA") <=> SoSimbolos(entrada, DNA_ALFABETO)
        /\ (ret = "RNA") <=>
              (~SoSimbolos(entrada, DNA_ALFABETO) /\ SoSimbolos(entrada, RNA_ALFABETO))
        /\ (ret = "Desconhecido") <=>
              (~SoSimbolos(entrada, DNA_ALFABETO) /\ ~SoSimbolos(entrada, RNA_ALFABETO))
        /\ SoSimbolos(entrada, {"A", "C", "G"}) => ret = "DNA"

C1_Witness ==
    /\ fn = "classificar"
    /\ entrada = <<"A", "C", "G", "A", "C", "G">>
    /\ ret = "DNA"

\* The messages of the failing ingestion branches: an empty typed sequence,
\* an empty accession id, and a retrieval that returns None (requests
\* missing, a transport or HTTP error, any other exception, an empty
\* extracted sequence).
FalhaDeIngestao(t) ==
    t \in {<<"Erro: Sequencia vazia">>,
           <<"Erro: ID de acesso vazio">>,
           <<"Erro: requests nao instalada">>,
           <<"Buscando sequencia", "Erro ao buscar sequencia">>,
           <<"Buscando sequencia", "Erro inesperado">>,
           <<"Buscando sequencia", "Erro: Sequencia nao encontrada ou vazia">>}

\* C2: an iteration of option 1 or 2 that fails to ingest leaves the current
\* sequence and the current kind as they were, and the loop goes on.
C2_FalhaPreservaEstado ==
    [][(opcao' \in {"1", "2"} /\ FalhaDeIngestao(tela'))
          => (UNCHANGED <<sequencia_atual, tipo_atual>> /\ pc' = "menu")]_vars

C2_Witness ==
    /\ opcao = "2"
    /\ tela = <<"Buscando sequencia", "Erro: Sequencia nao encontrada ou vazia">>
    /\ sequencia_atual = <<"U", "U">>
    /\ tipo_atual = "RNA"
    /\ pc = "menu"

\* C3: after option 3 on a loaded sequence whose kind is not DNA, no
\* transcription was made, shown or saved.
C3_TranscricaoRecusada ==
    (opcao = "3" /\ sequencia_atual # None /\ tipo_atual # "DNA") =>
        /\ rna = None
        /\ arquivo = None
        /\ \A i \in 1..Len(tela) : tela[i] # "Transcricao DNA -> RNA"

\* C4: the current sequence, when one is held, is upper-case and holds no
\* whitespace character (space, tab, line feed, carriage return).
C4_SequenciaNormalizada ==
    sequencia_atual # None =>
        \A i \in 1..Len(sequencia_atual) :
            sequencia_atual[i] \notin (Espacos \cup Minusculas)

\* C5: on a sequence over {A,T,C,G} the reverse complement is the symbol-wise
\* complement read in reverse, and applying it to its own result gives the
\* sequence back.
C5_ComplementoReversoInvolucao ==
    (fn = "gerar_complemento_reverso" /\ SoSimbolos(entrada, DNA_ALFABETO)) =>
        /\ ret = ComplementoInvertido(entrada)
        /\ gerar_complemento_reverso(ret) = entrada

C5_Witness ==
    /\ fn = "gerar_complemento_reverso"
    /\ entrada = <<"A", "A", "C", "G">>
    /\ ret = <<"C", "G", "T", "T">>

\* C6: the result lists, in strictly increasing order, exactly the 1-based
\* starts at which the upper-cased motif equals the upper-cased window,
\* overlapping ones included; it is empty when nothing matches or the motif
\* is longer than the sequence; "ATC" in "GATCGATC" is found at 2 and 6.
C6_MotivosPosicoesExatas ==
    fn = "encontrar_motivos" =>
        LET su == upper(entrada)
            mu == upper(padrao)
            P  == {i \in 1..(Len(su) - Len(mu) + 1) : SubSeq(su, i, i + Len(mu) - 1) = mu}
        IN  /\ {ret[k] : k \in 1..Len(ret)} = P
            /\ \A j, k \in 1..Len(ret) : j < k => ret[j] < ret[k]
            /\ P = {} => ret = <<>>
            /\ Len(padrao) > Len(entrada) => ret = <<>>
            /\ (entrada = ExemploSequencia /\ mu = ExemploMotivo) => ret = <<2, 6>>

C6_Witness ==
    /\ fn = "encontrar_motivos"
    /\ entrada = <<"T", "A", "a", "A">>
    /\ padrao = <<"a", "A">>
    /\ ret = <<2, 3>>

\* C7: the keys of the count are exactly the symbols that occur, each value
\* is the positive number of occurrences, and the values sum to the length.
C7_ContagemExata ==
    fn = "contar_bases" =>
        /\ DOMAIN ret = {entrada[i] : i \in 1..Len(entrada)}
        /\ \A b \in DOMAIN ret : ret[b] = Ocorrencias(entrada, b) /\ ret[b] > 0
        /\ Soma(ret, DOMAIN ret) = Len(entrada)
        /\ entrada = <<>> => ret = <<>>

C7_Witness ==
    /\ fn = "contar_bases"
    /\ entrada = <<"A", "A", "T", "C", "G">>
    /\ ret = ("A" :> 2) @@ ("T" :> 1) @@ ("C" :> 1) @@ ("G" :> 1)

\* The lines of a text that do not begin with '>', joined.
CorpoSemCabecalhos(text) ==
    join(SelectSeq(split_linhas(text), LAMBDA linha : ~startswith(linha, ">")))

\* C8 as stated: the result is the lines of the fetched text that do not
\* begin with '>', joined in order and upper-cased (an empty result being
\* reported as None).
C8_ExtracaoSoCabecalhos ==
    fn = "buscar_sequencia_ncbi" =>
        LET esperado == upper(CorpoSemCabecalhos(entrada))
        IN  \/ ret = esperado
            \/ ret = None /\ esperado = <<>>

\* The first position of the line of s that holds position i.
InicioDaLinha(s, i) ==
    CHOOSE k \in 1..i :
        /\ k = 1 \/ s[k - 1] = "\n"
        /\ \A j \in k..(i - 1) : s[j] # "\n"

\* The characters of s from position i on that are neither a line feed, nor
\* a space, nor on a line beginning with '>', upper-cased.
RECURSIVE Mantidos(_, _)
Mantidos(s, i) ==
    IF i > Len(s) THEN <<>>
    ELSE (IF s[i] \notin {"\n", " "} /\ s[InicioDaLinha(s, i)] # ">"
          THEN <<upper_char(s[i])>> ELSE <<>>) \o Mantidos(s, i + 1)

\* C8, amended: the text is first stripped of leading and trailing
\* whitespace; the lines of the stripped text beginning with '>' are
\* discarded; the other lines are joined in order with no separator,
\* upper-cased, and every space is removed; an empty result is returned as
\* None; the bodies of several records are joined into one sequence.
C8_ExtracaoFasta ==
    fn = "buscar_sequencia_ncbi" =>
        LET esperado == Mantidos(strip(entrada), 1)
        IN  /\ ret = IF esperado = <<>> THEN None ELSE esperado
            /\ entrada = ExemploFasta => ret = <<"A", "T", "G", "C", "G", "A", "T", "C">>

C8_Witness ==
    /\ fn = "buscar_sequencia_ncbi"
    /\ entrada = texto_de(<< <<">", "h">>, <<"a", "T">>, <<">", "h">>, <<"T", " ", "g">> >>)
    /\ ret = <<"A", "T", "T", "G">>

\* C9: on any sequence the result is the reverse complement of the symbols
\* of the input that are in {A,T,C,G}: it holds only those symbols and is
\* as long as their number in the input.
C9_ComplementoReversoDescarta ==
    fn = "gerar_complemento_reverso" =>
        /\ ret = ComplementoInvertido(SelectSeq(entrada, LAMBDA b : b \in DNA_ALFABETO))
        /\ SoSimbolos(ret, DNA_ALFABETO)
        /\ Len(ret) = Cardinality({i \in 1..Len(entrada) : entrada[i] \in DNA_ALFABETO})

C9_Witness ==
    /\ fn = "gerar_complemento_reverso"
    /\ entrada = <<"A", "U", "X", "G">>
    /\ ret = <<"C", "T">>

EstadoConsistente ==
    /\ (sequencia_atual = None) <=> (tipo_atual = "None")
    /\ sequencia_atual # None =>
          /\ sequencia_atual # <<>>
          /\ tipo_atual = Tipo(sequencia_atual)

\* C10: the current sequence and kind are both unset or both set; when set
\* the sequence is non-empty and the kind is its classification; option 3
\* changes neither.
C10_EstadoConsistente ==
    /\ []EstadoConsistente
    /\ [][opcao' = "3" => UNCHANGED <<sequencia_atual, tipo_atual>>]_vars

C10_Witness ==
    /\ opcao = "3"
    /\ sequencia_atual = <<"T", "U">>
    /\ tipo_atual = "Desconhecido"
    /\ rna = <<"U", "U">>

====
